---------------------------- MODULE Spec2Model ----------------------------
(***************************************************************************)
(* A model of src/modules/atom/index.ts (class Atom): construction, the    *)
(* animated size, the damped integration step calcPosition, the bond       *)
(* membership query isBondedWith and the angle query calculateAngle.       *)
(*                                                                         *)
(* Numbers.  A JavaScript number is modelled as a binary floating-point    *)
(* value: an integer count of Unit-ths (Unit = 2^20), rounded after every  *)
(* arithmetic operation to Bits significant bits (round half to even).     *)
(* Values below 2^Bits units are held exactly to one unit.  IEEE doubles   *)
(* round the same way with 53 significant bits; the model keeps the        *)
(* structure (every operation rounds, halving and doubling are exact, a    *)
(* small addend is absorbed by a large one) at a precision that TLC's      *)
(* 32-bit integers can hold.                                               *)
(***************************************************************************)
EXTENDS Integers, Sequences, FiniteSets, TLC

----------------------------------------------------------------------------
(* Bounds of the model *)

\* significant bits kept by each arithmetic operation
Bits == 14
\* longest bond list the environment builds
MaxBonds == 3
\* calcPosition calls in one run of the frame loop
MaxTicks == 3
\* constructor calls in one run
MaxCtor == 1

----------------------------------------------------------------------------
(* Arithmetic *)

Unit == 2^20

Abs(n) == IF n < 0 THEN -n ELSE n

Sgn(n) == IF n < 0 THEN -1 ELSE IF n > 0 THEN 1 ELSE 0

Min(a, b) == IF a <= b THEN a ELSE b

Max(a, b) == IF a >= b THEN a ELSE b

\* the number of bits of n >= 0
BitLen(n) ==
  IF n < 2^8 THEN CHOOSE k \in 0..8 : n < 2^k /\ 2^k <= 2 * n + 1
  ELSE IF n < 2^16 THEN CHOOSE k \in 9..16 : n < 2^k /\ 2^k <= 2 * n
  ELSE IF n < 2^24 THEN CHOOSE k \in 17..24 : n < 2^k /\ 2^k <= 2 * n
  ELSE CHOOSE k \in 25..31 : n \div 2^(k - 1) = 1

\* the quotient m of a division by q that left the remainder r, rounded to the
\* nearest integer, a tie to the even one; sticky says that the exact value
\* lies above m + r / q
Nearest(m, r, q, sticky) ==
  IF 2 * r > q \/ (2 * r = q /\ (sticky \/ m % 2 = 1)) THEN m + 1 ELSE m

\* n / 2^k for n >= 0, rounded
RoundShift(n, k, sticky) ==
  IF k = 0 THEN n ELSE Nearest(n \div 2^k, n % 2^k, 2^k, sticky)

\* a >= 0 rounded to Bits significant bits, k the number of bits a has beyond
\* Bits.  (Here and below an operand is bound to a variable, so that it is
\* evaluated once.)
FlBits(a, k) ==
  CHOOSE r \in {IF j <= 0 THEN a ELSE RoundShift(a, j, FALSE) * 2^j : j \in {k}} : TRUE

\* Rounding of an exact result to the nearest representable number.
Fl(x) ==
  CHOOSE r \in {Sgn(v) * FlBits(Abs(v), BitLen(Abs(v)) - Bits) : v \in {x}} : TRUE

\* a representable a >= 0 is Man(a) * 2^Exp(a) with Man(a) < 2^Bits
Exp(a) == Max(0, BitLen(a) - Bits)

Man(a) == a \div 2^Exp(a)

FAdd(a, b) == Fl(a + b)

FSub(a, b) == Fl(a - b)

\* p * 2^e for p >= 0, rounded once
Scaled(p, e) ==
  CHOOSE r \in {IF s >= 0 THEN Fl(m) * 2^s
                ELSE IF BitLen(m) + s >= Bits THEN Fl(m) \div 2^(-s)
                ELSE RoundShift(m, -s, FALSE) : m \in {p}, s \in {e}} : TRUE

\* x * y / Unit for representable x, y >= 0: the product of the significands
\* is exact; one rounding gives the result
MulAbs(x, y) == Scaled(Man(x) * Man(y), Exp(x) + Exp(y) - 20)

FMul(a, b) ==
  CHOOSE r \in {Sgn(v) * Sgn(w) * MulAbs(Abs(v), Abs(w)) :
                  v \in {Fl(a)}, w \in {Fl(b)}} : TRUE

\* q * 2^e rounded once, for a quotient q of k bits more than Bits (k >= 1);
\* sticky says that the division left a remainder
Quot(q, sticky, e, k) ==
  CHOOSE r \in {IF j + s >= 0 THEN RoundShift(m, j, sticky) * 2^(j + s)
                ELSE RoundShift(m, -s, sticky) :
                  m \in {q}, s \in {e}, j \in {k}} : TRUE

\* (n / d) * 2^e for a dividend n of 30 bits and a divisor d below 2^Bits
DivMan(n, d, e) ==
  CHOOSE r \in {Quot(m \div c, m % c # 0, e, BitLen(m \div c) - Bits) :
                  m \in {n}, c \in {d}} : TRUE

\* x * Unit / y for representable x > 0, y > 0; s shifts the significand of x
\* to 30 bits
DivAbs(x, y, s) == DivMan(Man(x) * 2^s, Man(y), Exp(x) - Exp(y) - s + 20)

FDiv(a, b) ==
  CHOOSE r \in {IF v = 0 THEN 0
                ELSE Sgn(v) * Sgn(w)
                     * DivAbs(Abs(v), Abs(w), 30 - BitLen(Man(Abs(v)))) :
                  v \in {Fl(a)}, w \in {Fl(b)}} : TRUE

\* floor(sqrt(n) / 256) for 0 <= n < 2^29
SqrtHigh(n) ==
  CHOOSE i \in 0..90 : (256 * i) * (256 * i) <= n
                       /\ (256 * (i + 1)) * (256 * (i + 1)) > n

\* floor(sqrt(n)), which lies in h .. h + 255
SqrtFrom(n, h) ==
  h + CHOOSE i \in 0..255 : (h + i) * (h + i) <= n /\ (h + i + 1) * (h + i + 1) > n

\* floor of the square root of 0 <= n < 2^29
ISqrt(n) ==
  CHOOSE r \in {SqrtFrom(m, h) : m \in {n}, h \in {256 * SqrtHigh(n)}} : TRUE

\* n / d in units, to the nearest unit, 0 <= n < 2048
Ratio(n, d) == (n * Unit + (d \div 2)) \div d

\* the number written n / d (a decimal literal of the source, d a power of 10)
Dec(n, d) == Fl(Ratio(n, d))

\* the number written i.mmmuuu (m thousandths and u millionths)
Decimal(i, m, u) == Fl(i * Unit + Ratio(m, 1000) + Ratio(u, 10^6))

----------------------------------------------------------------------------
(* Library functions of the JavaScript runtime *)

\* Math.PI
MathPI == Decimal(3, 141, 593)

\* Math.log at the masses the model uses; Math.log(1) = 0 is the singularity
\* of the damping factor
MathLog(m) ==
  CASE m = Decimal(1, 8, 0) -> Decimal(0, 7, 968)
    [] m = Unit             -> 0
    [] m = 2 * Unit         -> Decimal(0, 693, 147)
    [] m = 4 * Unit         -> Decimal(1, 386, 294)
    [] m = 12 * Unit        -> Decimal(2, 484, 907)
    [] m = 32 * Unit        -> Decimal(3, 465, 736)

\* m ** 1.2 at the masses the model uses
Pow12(m) ==
  CASE m = 0                -> 0
    [] m = Decimal(1, 8, 0) -> Decimal(1, 9, 608)
    [] m = Unit             -> Unit
    [] m = 2 * Unit         -> Decimal(2, 297, 397)
    [] m = 4 * Unit         -> Decimal(5, 278, 32)
    [] m = 12 * Unit        -> Decimal(19, 725, 22)
    [] m = 32 * Unit        -> Fl(64 * Unit)

\* arctan(p / q) for 0 <= p <= q, q > 0, at the ratios the model uses: 0, 1
\* and ratios so small that arctan(z) is z to the last bit kept
AtanRatio(p, q) ==
  CASE p = 0              -> 0
    [] p = q              -> MathPI \div 4
    [] p <= q \div 2^10   -> FDiv(p, q)

\* arctan(ay / ax) in [0, pi/2] for ax, ay >= 0; 0 for ax = ay = 0
AtanAbs(ay, ax) ==
  IF ax = 0 /\ ay = 0 THEN 0
  ELSE IF ay <= ax THEN AtanRatio(ay, ax)
  ELSE FSub(MathPI \div 2, AtanRatio(ax, ay))

\* the first-quadrant angle t carried to the quadrant of (x, y)
Quadrant(t, y, x) ==
  (IF y < 0 THEN -1 ELSE 1) * (IF x >= 0 THEN t ELSE FSub(MathPI, t))

\* Math.atan2(y, x): the angle of (x, y) in [-pi, pi], atan2(0, 0) = 0
MathAtan2(y, x) == Quadrant(AtanAbs(Abs(y), Abs(x)), y, x)

----------------------------------------------------------------------------
(* Optional values: undefined is the empty set, a value v is {v} *)

Undefined == {}

Some(v) == {v}

Val(o) == CHOOSE v \in o : TRUE

\* JavaScript's  o || d  for a number: undefined and 0 are falsy
OrNum(o, d) == IF o = Undefined \/ o = Some(0) THEN d ELSE Val(o)

\* o || d for a string: undefined and "" are falsy
OrStr(o, d) == IF o = Undefined \/ o = Some("") THEN d ELSE Val(o)

\* o || d for an object: only undefined is falsy
OrObj(o, d) == IF o = Undefined THEN d ELSE Val(o)

----------------------------------------------------------------------------
(* Vector2 *)

Vector2(x, y) == [x |-> x, y |-> y]

Zero == Vector2(0, 0)

sum(v, w) ==
  CHOOSE r \in {Vector2(FAdd(p.x, q.x), FAdd(p.y, q.y)) : p \in {v}, q \in {w}} : TRUE

sub(v, w) ==
  CHOOSE r \in {Vector2(FSub(p.x, q.x), FSub(p.y, q.y)) : p \in {v}, q \in {w}} : TRUE

multi(v, k) ==
  CHOOSE r \in {Vector2(FMul(p.x, c), FMul(p.y, c)) : p \in {v}, c \in {k}} : TRUE

\* sqrt(x^2 + y^2) for x, y >= 0, scaled by k so that the squares fit
Hypot(x, y, k) ==
  CHOOSE r \in {Fl(k * ISqrt(p * p + q * q)) : p \in {x \div k}, q \in {y \div k}} : TRUE

\* v.length()
length(v) ==
  CHOOSE r \in {Hypot(Abs(p.x), Abs(p.y), 2^Max(0, BitLen(Abs(p.x) + Abs(p.y)) - 14)) :
                  p \in {v}} : TRUE

----------------------------------------------------------------------------
(* Atom *)

\* the atom objects (references; two atoms are the same iff the references are)
Atoms == {"a1", "a2", "a3"}

\* strings generateUniqueID may return
GenIds == {"g1", "g2"}

\* the velocity magnitude below which calcPosition snaps to rest
Epsilon == Dec(1, 100000)

\* config?.field
Field(config, f) == IF config = Undefined THEN Undefined ELSE Val(config)[f]

\* new Atom(config); uid is what generateUniqueID() returns when it is called
NewAtom(config, uid) ==
  LET properties == OrObj(Field(config, "properties"), [atomicMass |-> Undefined])
      size       == OrNum(Field(config, "size"), 25 * Unit)
  IN  [pos        |-> OrObj(Field(config, "pos"), Vector2(0, 0)),
       vel        |-> OrObj(Field(config, "vel"), Vector2(0, 0)),
       selected   |-> FALSE,
       size       |-> FAdd(size,
                           FDiv(Pow12(OrNum(properties.atomicMass, Unit)), 10 * Unit)),
       id         |-> OrStr(Field(config, "id"), uid),
       friction   |-> OrNum(Field(config, "friction"), Unit),
       properties |-> properties]

\* getAnimatedSize with a defect: the velocity's contribution is not capped
getAnimatedSize_NoCap(as, this) ==
  LET a == as[this]
  IN  FMul(a.size, FAdd(Unit, FDiv(length(a.vel), FMul(a.size, 10 * Unit))))

\* this.getAnimatedSize() for the atom `this` of the heap `as`
getAnimatedSize(as, this) ==
  LET a == as[this]
  IN  FMul(a.size,
           FAdd(Unit, FDiv(Min(length(a.vel), FMul(a.size, 2 * Unit)),
                           FMul(a.size, 10 * Unit))))

\* delta * (1 / Math.log(this.properties.atomicMass || 2)) * 20
StepFactor(a, delta) ==
  FMul(FMul(delta, FDiv(Unit, MathLog(OrNum(a.properties.atomicMass, 2 * Unit)))),
       20 * Unit)

\* calcPosition with a defect: no snap to rest, every velocity is integrated
calcPosition_NoSnap(as, this, delta) ==
  LET a == as[this]
      frictionForce == multi(a.vel, -a.friction)
      vel == sum(a.vel, multi(frictionForce, StepFactor(a, delta)))
      pos == sum(a.pos, multi(vel, StepFactor(a, delta)))
  IN  [as EXCEPT ![this].vel = vel, ![this].pos = pos]

\* calcPosition with a defect: the call integrates every atom of the heap
calcPosition_AllAtoms(as, this, delta) ==
  [b \in DOMAIN as |->
     LET a == as[b]
     IN  IF length(a.vel) < Epsilon
         THEN [a EXCEPT !.vel = Vector2(0, 0)]
         ELSE LET frictionForce == multi(a.vel, -a.friction)
                  vel == sum(a.vel, multi(frictionForce, StepFactor(as[this], delta)))
                  pos == sum(a.pos, multi(vel, StepFactor(as[this], delta)))
              IN  [a EXCEPT !.vel = vel, !.pos = pos]]

\* calcPosition with a defect: the position advances with the velocity before
\* the update (explicit Euler)
calcPosition_ExplicitEuler(as, this, delta) ==
  LET a == as[this]
  IN  IF length(a.vel) < Epsilon
      THEN [as EXCEPT ![this].vel = Vector2(0, 0)]
      ELSE LET frictionForce == multi(a.vel, -a.friction)
               vel == sum(a.vel, multi(frictionForce, StepFactor(a, delta)))
               pos == sum(a.pos, multi(a.vel, StepFactor(a, delta)))
           IN  [as EXCEPT ![this].vel = vel, ![this].pos = pos]

\* calcPosition with a defect: the friction force has the velocity's sign
calcPosition_FrictionSign(as, this, delta) ==
  LET a == as[this]
  IN  IF length(a.vel) < Epsilon
      THEN [as EXCEPT ![this].vel = Vector2(0, 0)]
      ELSE LET frictionForce == multi(a.vel, a.friction)
               vel == sum(a.vel, multi(frictionForce, StepFactor(a, delta)))
               pos == sum(a.pos, multi(vel, StepFactor(a, delta)))
           IN  [as EXCEPT ![this].vel = vel, ![this].pos = pos]

\* this.calcPosition(delta): the heap after the call
calcPosition(as, this, delta) ==
  LET a == as[this]
  IN  IF length(a.vel) < Epsilon
      THEN [as EXCEPT ![this].vel = Vector2(0, 0)]
      ELSE LET frictionForce == multi(a.vel, -a.friction)
               vel == sum(a.vel, multi(frictionForce, StepFactor(a, delta)))
               pos == sum(a.pos, multi(vel, StepFactor(a, delta)))
           IN  [as EXCEPT ![this].vel = vel, ![this].pos = pos]

\* new Bond(atom1, atom2)
Bond(atom1, atom2) == [atom1 |-> atom1, atom2 |-> atom2]

\* isBondedWith with a defect: only the stored order atom1 = this is looked for
isBondedWith_OneOrder(bondList, this, otherAtom) ==
  \E i \in DOMAIN bondList :
     bondList[i].atom1 = this /\ bondList[i].atom2 = otherAtom

\* this.isBondedWith(bonds, otherAtom)
isBondedWith(bondList, this, otherAtom) ==
  \E i \in DOMAIN bondList :
     \/ (bondList[i].atom1 = this /\ bondList[i].atom2 = otherAtom)
     \/ (bondList[i].atom1 = otherAtom /\ bondList[i].atom2 = this)

\* calculateAngle with a defect: the bond atom3-atom1 is not asked for
calculateAngle_PathOnly(as, bondList, atom1, atom2, atom3) ==
  LET isConnected == /\ isBondedWith(bondList, atom1, atom2)
                     /\ isBondedWith(bondList, atom2, atom3)
      vector1 == sub(as[atom1].pos, as[atom2].pos)
      vector2 == sub(as[atom3].pos, as[atom2].pos)
      raw     == FSub(MathAtan2(vector2.y, vector2.x), MathAtan2(vector1.y, vector1.x))
      angleInRadians == IF raw < 0 THEN FAdd(raw, FMul(2 * Unit, MathPI)) ELSE raw
  IN  IF ~isConnected THEN Undefined
      ELSE Some(FMul(angleInRadians, FDiv(180 * Unit, MathPI)))

\* calculateAngle with a defect: the difference of the two directions is taken
\* the other way round
calculateAngle_Swapped(as, bondList, atom1, atom2, atom3) ==
  LET isConnected == /\ isBondedWith(bondList, atom1, atom2)
                     /\ isBondedWith(bondList, atom2, atom3)
                     /\ isBondedWith(bondList, atom3, atom1)
      vector1 == sub(as[atom1].pos, as[atom2].pos)
      vector2 == sub(as[atom3].pos, as[atom2].pos)
      raw     == FSub(MathAtan2(vector1.y, vector1.x), MathAtan2(vector2.y, vector2.x))
      angleInRadians == IF raw < 0 THEN FAdd(raw, FMul(2 * Unit, MathPI)) ELSE raw
  IN  IF ~isConnected THEN Undefined
      ELSE Some(FMul(angleInRadians, FDiv(180 * Unit, MathPI)))

\* Atom.calculateAngle(bonds, atom1, atom2, atom3): null is Undefined
calculateAngle(as, bondList, atom1, atom2, atom3) ==
  LET isConnected == /\ isBondedWith(bondList, atom1, atom2)
                     /\ isBondedWith(bondList, atom2, atom3)
                     /\ isBondedWith(bondList, atom3, atom1)
      vector1 == sub(as[atom1].pos, as[atom2].pos)
      vector2 == sub(as[atom3].pos, as[atom2].pos)
      raw     == FSub(MathAtan2(vector2.y, vector2.x), MathAtan2(vector1.y, vector1.x))
      angleInRadians == IF raw < 0 THEN FAdd(raw, FMul(2 * Unit, MathPI)) ELSE raw
  IN  IF ~isConnected THEN Undefined
      ELSE Some(FMul(angleInRadians, FDiv(180 * Unit, MathPI)))


----------------------------------------------------------------------------
(* State *)

VARIABLES
  atoms,   \* the heap: each atom object's fields
  config,  \* the configuration each atom was constructed from
  bonds,   \* the simulation's bond list (Bond[])
  delta,   \* the elapsed time the frame loop passes to calcPosition
  call,    \* the latest constructor or calcPosition call, and `this` before it
  query,   \* the latest query call and what it returned; none since a mutation
  ticks    \* constructor and calcPosition calls made so far

vars == <<atoms, config, bonds, delta, call, query, ticks>>

NoCall == [op |-> "none", this |-> "a1", before |-> NewAtom(Undefined, "g1")]

NoQuery == [op |-> "none", args |-> <<>>, value |-> Undefined]

\* a configuration object with every field given (each possibly undefined)
Cfg(pos, vel, size, id, friction, atomicMass) ==
  Some([pos |-> pos, vel |-> vel, size |-> size, id |-> id, friction |-> friction,
        properties |-> Some([atomicMass |-> atomicMass])])

\* elapsed times the frame loop passes: 0.016 and 0.05
Deltas == {Dec(16, 1000), Dec(50, 1000)}

\* the magnitudes up to which the model follows positions and velocities
Range == 1000 * Unit

\* calcPosition(delta) on atom a stays within the model's numbers: the mass is
\* not the singular 1 and the velocity and position after the step fit
InRange(a, d) ==
  /\ MathLog(OrNum(a.properties.atomicMass, 2 * Unit)) # 0
  /\ LET c == StepFactor(a, d)
         g == 2 + (Abs(FMul(a.friction, c)) \div Unit)
         h == 1 + (Abs(c) \div Unit)
     IN  /\ Abs(a.vel.x) <= Range \div (g * h)
         /\ Abs(a.vel.y) <= Range \div (g * h)
         /\ Abs(a.pos.x) <= Range
         /\ Abs(a.pos.y) <= Range

----------------------------------------------------------------------------
(* Operations *)

\* atoms[a] = new Atom(cfg)
Construct(a, cfg, uid) ==
  /\ ticks < MaxCtor
  /\ atoms' = [atoms EXCEPT ![a] = NewAtom(cfg, uid)]
  /\ config' = [config EXCEPT ![a] = cfg]
  /\ call' = [op |-> "constructor", this |-> a, before |-> atoms[a]]
  /\ ticks' = ticks + 1
  /\ query' = NoQuery
  /\ UNCHANGED <<bonds, delta>>

\* atoms[a].calcPosition(d)
Step(a, d) ==
  /\ InRange(atoms[a], d)
  /\ atoms' = calcPosition(atoms, a, d)
  /\ delta' = d
  /\ call' = [op |-> "calcPosition", this |-> a, before |-> atoms[a]]
  /\ query' = NoQuery
  /\ UNCHANGED <<config, bonds>>

\* one calcPosition call with any elapsed time
CalcPosition(a, d) ==
  /\ ticks < MaxTicks
  /\ Step(a, d)
  /\ ticks' = ticks + 1

\* the frame loop's call, every frame with the same elapsed time
LoopCalcPosition(a) ==
  /\ Step(a, delta)
  /\ UNCHANGED ticks

\* atoms[a].getAnimatedSize()
GetAnimatedSize(a) ==
  /\ query' = [op |-> "getAnimatedSize", args |-> <<a>>,
               value |-> Some(getAnimatedSize(atoms, a))]
  /\ UNCHANGED <<atoms, config, bonds, delta, call, ticks>>

\* atoms[a].isBondedWith(bonds, atoms[b])
IsBondedWith(a, b) ==
  /\ query' = [op |-> "isBondedWith", args |-> <<a, b>>,
               value |-> Some(isBondedWith(bonds, a, b))]
  /\ UNCHANGED <<atoms, config, bonds, delta, call, ticks>>

\* Atom.calculateAngle(bonds, atoms[a], atoms[b], atoms[c])
CalculateAngle(a, b, c) ==
  /\ query' = [op |-> "calculateAngle", args |-> <<a, b, c>>,
               value |-> calculateAngle(atoms, bonds, a, b, c)]
  /\ UNCHANGED <<atoms, config, bonds, delta, call, ticks>>

\* the simulation adds a bond between two atoms, once for each stored order
AddBond(a, b) ==
  /\ Len(bonds) < MaxBonds
  /\ a # b
  /\ \A i \in DOMAIN bonds : bonds[i] # Bond(a, b)
  /\ bonds' = Append(bonds, Bond(a, b))
  /\ query' = NoQuery
  /\ UNCHANGED <<atoms, config, delta, call, ticks>>

\* the simulation removes the i-th bond
RemoveBond(i) ==
  /\ i \in DOMAIN bonds
  /\ bonds' = SubSeq(bonds, 1, i - 1) \o SubSeq(bonds, i + 1, Len(bonds))
  /\ query' = NoQuery
  /\ UNCHANGED <<atoms, config, delta, call, ticks>>

----------------------------------------------------------------------------
(* The frame loop: atoms in motion, each calcPosition call with any delta *)

Triangle == <<Bond("a1", "a2"), Bond("a3", "a2"), Bond("a3", "a1")>>

\* mass 4, friction 1, velocity (10, 0) / hydrogen / a velocity below Epsilon
SceneA ==
  [cfg   |-> [a \in Atoms |->
                IF a = "a1"
                THEN Cfg(Some(Vector2(0, 0)), Some(Vector2(10 * Unit, 0)), Undefined,
                         Some("he"), Some(Unit), Some(4 * Unit))
                ELSE IF a = "a2"
                THEN Cfg(Some(Vector2(Unit, 0)), Some(Vector2(Dec(1, 100), 0)), Undefined,
                         Some("h"), Undefined, Some(Decimal(1, 8, 0)))
                ELSE Cfg(Some(Vector2(Unit, Unit)), Some(Vector2(3, -4)), Undefined,
                         Some("c"), Some(Unit), Some(12 * Unit))],
   bonds |-> Triangle]

\* no mass and friction 2 / new Atom() / friction 0 and a diagonal velocity
SceneB ==
  [cfg   |-> [a \in Atoms |->
                IF a = "a1"
                THEN Cfg(Undefined, Some(Vector2(0, -3 * Unit)), Some(10 * Unit),
                         Undefined, Some(2 * Unit), Undefined)
                ELSE IF a = "a2"
                THEN Undefined
                ELSE Cfg(Some(Vector2(-Unit, 2 * Unit)),
                         Some(Vector2(-Dec(5, 10), Dec(5, 10))), Undefined,
                         Some("s"), Some(0), Some(32 * Unit))],
   bonds |-> <<Bond("a1", "a3")>>]

\* a velocity just above Epsilon / friction 1/2 / an atom at rest
SceneC ==
  [cfg   |-> [a \in Atoms |->
                IF a = "a1"
                THEN Cfg(Some(Vector2(5 * Unit, 5 * Unit)), Some(Vector2(0, 2 * Epsilon)),
                         Undefined, Some("c"), Undefined, Some(12 * Unit))
                ELSE IF a = "a2"
                THEN Cfg(Some(Vector2(0, 0)), Some(Vector2(6 * Unit, 8 * Unit)), Undefined,
                         Some("he"), Some(Dec(5, 10)), Some(4 * Unit))
                ELSE Cfg(Some(Vector2(Unit, 0)), Undefined, Undefined, Some("x"),
                         Some(Unit), Undefined)],
   bonds |-> <<>>]

Scenes == {SceneA, SceneB, SceneC}

InitScene(scene) ==
  /\ config = scene.cfg
  /\ atoms = [a \in Atoms |-> NewAtom(scene.cfg[a], "g1")]
  /\ bonds = scene.bonds
  /\ call = NoCall
  /\ query = NoQuery
  /\ ticks = 0

Init ==
  /\ \E scene \in Scenes : InitScene(scene)
  /\ delta = 0

Next ==
  \E a \in Atoms, d \in Deltas : CalcPosition(a, d)

Spec == Init /\ [][Next]_vars

----------------------------------------------------------------------------
(* Properties of calcPosition, under Spec *)

\* the latest call was calcPosition on an atom moving at Epsilon or faster
Integrated ==
  /\ call.op = "calcPosition"
  /\ length(call.before.vel) >= Epsilon

\* the latest call was calcPosition on an atom moving slower than Epsilon
Snapped ==
  /\ call.op = "calcPosition"
  /\ length(call.before.vel) < Epsilon

\* C3: damping never increases speed: after calcPosition(delta) on an atom with
\* speed at least 1e-5, friction > 0 and atomicMass other than 1, the speed is
\* at most the speed before the call.
C3_DampingNeverIncreasesSpeed ==
  (/\ Integrated
   /\ call.before.friction > 0
   /\ call.before.properties.atomicMass # Some(Unit))
  => length(atoms[call.this].vel) <= length(call.before.vel)

\* C4: calcPosition(delta) on an atom whose speed is below 1e-5 sets the
\* velocity to exactly (0,0) and leaves the position unchanged, for every delta.
C4_SnapToRest ==
  Snapped => /\ atoms[call.this].vel = Zero
             /\ atoms[call.this].pos = call.before.pos

\* a non-zero velocity below Epsilon was snapped, with the larger elapsed time
C4_Witness ==
  /\ Snapped
  /\ call.before.vel # Zero
  /\ call.before.pos # Zero
  /\ delta = Dec(50, 1000)
  /\ atoms[call.this].vel = Zero

\* the orders in which a frame tick may visit the atoms
Orders == {p \in [1..3 -> Atoms] : \A i, j \in 1..3 : i # j => p[i] # p[j]}

\* one frame tick: calcPosition(d) on every atom in the order p
Tick(as, p, d) ==
  calcPosition(calcPosition(calcPosition(as, p[1], d), p[2], d), p[3], d)

\* C6: calcPosition on one atom changes only that atom's position and velocity:
\* every other atom, the atom's size, id, friction, selected flag and
\* properties, and the bond list stay as they were; and a frame tick that calls
\* calcPosition(delta) once on every atom ends in the same positions and
\* velocities whatever the order of the calls.
C6_IntegratedIndependently ==
  /\ [][call'.op = "calcPosition" =>
          /\ \A b \in Atoms \ {call'.this} : atoms'[b] = atoms[b]
          /\ atoms'[call'.this] = [atoms[call'.this] EXCEPT
                                     !.pos = atoms'[call'.this].pos,
                                     !.vel = atoms'[call'.this].vel]
          /\ bonds' = bonds]_vars
  /\ [](\A d \in Deltas :
          (\A a \in Atoms : InRange(atoms[a], d))
          => \A p \in Orders : Tick(atoms, p, d) = Tick(atoms, <<"a1", "a2", "a3">>, d))

\* a call moved one bonded atom while another atom, also in motion, stayed
C6_Witness ==
  /\ Integrated
  /\ atoms[call.this].pos # call.before.pos
  /\ isBondedWith(bonds, "a1", "a3")
  /\ \E b \in Atoms \ {call.this} : length(atoms[b].vel) >= Epsilon

\* x and y agree up to the rounding of a few operations
Near(x, y) == Abs(x - y) * 2^(Bits - 4) <= Abs(x) + Abs(y) + 2^(Bits - 3)

\* delta * k with k = 20 / ln(atomicMass, or 2 when absent)
DeltaK(a, d) ==
  FDiv(FMul(d, 20 * Unit), MathLog(OrNum(a.properties.atomicMass, 2 * Unit)))

\* v - friction * v * delta * k
Damped(a, v, d) == FSub(v, FMul(FMul(a.friction, v), DeltaK(a, d)))

\* the atom of the scenario: atomicMass 4, friction 1, velocity (10, 0)
Helium == NewAtom(SceneA.cfg["a1"], "g1")

\* C9: calcPosition is a semi-implicit Euler step: at a speed of 1e-5 or more
\* the velocity becomes v' = v - friction * v * delta * k, k = 20 / ln(atomicMass
\* or 2), and the position advances with that updated velocity,
\* pos' = pos + v' * delta * k; for atomicMass 4, friction 1, velocity (10,0)
\* and delta 0.016 the speed strictly decreases and the displacement has the
\* direction of v'.
C9_SemiImplicitEuler ==
  Integrated =>
    LET b  == call.before
        a  == atoms[call.this]
        dx == a.pos.x - b.pos.x
        dy == a.pos.y - b.pos.y
    IN  /\ Near(a.vel.x, Damped(b, b.vel.x, delta))
        /\ Near(a.vel.y, Damped(b, b.vel.y, delta))
        /\ a.pos = sum(b.pos, multi(a.vel, StepFactor(b, delta)))
        /\ (b = Helium /\ delta = Dec(16, 1000))
           => /\ length(a.vel) < length(b.vel)
              /\ dx > 0 /\ a.vel.x > 0
              /\ dy = 0 /\ a.vel.y = 0

\* the scenario's step has been taken
C9_Witness ==
  /\ Integrated
  /\ call.before = Helium
  /\ delta = Dec(16, 1000)
  /\ atoms[call.this].vel # call.before.vel

----------------------------------------------------------------------------
(* Bond and angle queries: three placed atoms, a bond list that grows and    *)
(* shrinks, and the two queries                                              *)

\* an atom placed at (x, y) with the id string id
Placed(x, y, id) ==
  Cfg(Some(Vector2(x, y)), Undefined, Undefined, Some(id), Undefined, Undefined)

\* (0,0), (1,0), (1,1): a right angle at a2
PlaceRight ==
  [a \in Atoms |-> IF a = "a1" THEN Placed(0, 0, "h")
                   ELSE IF a = "a2" THEN Placed(Unit, 0, "o")
                   ELSE Placed(Unit, Unit, "h")]

\* a1 a hair above the ray from a2 through a3
PlaceHair ==
  [a \in Atoms |-> IF a = "a1" THEN Placed(Unit, 1, "h")
                   ELSE IF a = "a2" THEN Placed(0, 0, "o")
                   ELSE Placed(Unit, 0, "h")]

\* three atoms on a line
PlaceLine ==
  [a \in Atoms |-> IF a = "a1" THEN Placed(0, 0, "h")
                   ELSE IF a = "a2" THEN Placed(Unit, 0, "o")
                   ELSE Placed(2 * Unit, 0, "h")]

Placements == {PlaceRight, PlaceHair, PlaceLine}

AngleInit ==
  /\ \E place \in Placements : InitScene([cfg |-> place, bonds |-> <<>>])
  /\ delta = 0

AngleNext ==
  \/ \E a, b \in Atoms : AddBond(a, b)
  \/ \E i \in 1..MaxBonds : RemoveBond(i)
  \/ \E a, b \in Atoms : IsBondedWith(a, b)
  \/ \E a, b, c \in Atoms : a # b /\ b # c /\ c # a /\ CalculateAngle(a, b, c)

AngleSpec == AngleInit /\ [][AngleNext]_vars

\* the list holds a bond whose two endpoints are the atoms a and b
Linked(bondList, a, b) ==
  \E i \in DOMAIN bondList : {bondList[i].atom1, bondList[i].atom2} = {a, b}

\* the three atoms of the latest calculateAngle call are pairwise bonded
FullyBonded ==
  /\ Linked(bonds, query.args[1], query.args[2])
  /\ Linked(bonds, query.args[2], query.args[3])
  /\ Linked(bonds, query.args[3], query.args[1])

\* C1: calculateAngle(bonds, a, b, c) returns null if and only if one of the
\* bonds a-b, b-c, c-a is missing from the list; otherwise it returns a number
\* of degrees d with 0 <= d <= 360 (360 itself is returned when a tiny negative
\* difference of the two directions is absorbed by the addition of 2 pi).
C1_NullIffBondMissing ==
  query.op = "calculateAngle" =>
    /\ (query.value = Undefined) <=> ~FullyBonded
    /\ query.value # Undefined =>
         (0 <= Val(query.value) /\ Val(query.value) <= 360 * Unit)

\* the statement with the half-open range: 0 <= d < 360
C1_BelowFullTurn ==
  query.op = "calculateAngle" =>
    /\ (query.value = Undefined) <=> ~FullyBonded
    /\ query.value # Undefined =>
         (0 <= Val(query.value) /\ Val(query.value) < 360 * Unit)

\* a fully bonded triple whose angle is returned as 360 degrees
C1_Witness ==
  /\ query.op = "calculateAngle"
  /\ FullyBonded
  /\ query.value = Some(360 * Unit)

\* the latest call is calculateAngle(bonds, a, b, c) with a at (0,0), b at (1,0)
\* and c at (1,1), fully bonded
RightAngleAsked ==
  /\ query.op = "calculateAngle"
  /\ query.args = <<"a1", "a2", "a3">>
  /\ atoms["a1"].pos = Vector2(0, 0)
  /\ atoms["a2"].pos = Vector2(Unit, 0)
  /\ atoms["a3"].pos = Vector2(Unit, Unit)
  /\ FullyBonded

\* C2: for a at (0,0), b at (1,0), c at (1,1), fully bonded,
\* calculateAngle(bonds, a, b, c) returns 270 degrees: the angle is measured
\* counter-clockwise from the direction b->a to the direction b->c.
C2_RightAngleIs270 == RightAngleAsked => query.value = Some(270 * Unit)

\* the statement with 90 degrees
C2_RightAngleIs90 == RightAngleAsked => query.value = Some(90 * Unit)

C2_Witness == RightAngleAsked /\ Val(query.value) = 270 * Unit

\* C5: a.isBondedWith(list, b) equals b.isBondedWith(list, a), and both are
\* true exactly when the list holds a bond with the endpoints a and b in either
\* stored order, the atoms compared as objects and not by their id strings.
C5_BondedIsSymmetric ==
  query.op = "isBondedWith" =>
    LET a == query.args[1]
        b == query.args[2]
    IN  /\ query.value = Some(isBondedWith(bonds, b, a))
        /\ query.value = Some(Linked(bonds, a, b))

\* a bond stored as (a2, a1) answers a1.isBondedWith(a2), while a3, which has
\* the id string of a1, is not bonded with a2
C5_Witness ==
  /\ query.op = "isBondedWith"
  /\ query.args = <<"a1", "a2">>
  /\ query.value = Some(TRUE)
  /\ \A i \in DOMAIN bonds : bonds[i] # Bond("a1", "a2")
  /\ atoms["a1"].id = atoms["a3"].id
  /\ ~isBondedWith(bonds, "a3", "a2")

----------------------------------------------------------------------------
(* Construction and the animated size *)

\* a configuration object with a velocity, a size, a friction and properties
\* (each possibly undefined) and neither pos nor id
CtorCfg(vel, size, friction, properties) ==
  Some([pos |-> Undefined, vel |-> vel, size |-> size, id |-> Undefined,
        friction |-> friction, properties |-> properties])

\* properties: { atomicMass: m }, or {} when m is undefined
Mass(m) == Some([atomicMass |-> m])

\* configurations passed to the constructor: nothing, and objects in which each
\* of size, friction and atomicMass is absent in one, zero in another and
\* non-zero in a third
CtorConfigs ==
  {Undefined,
   CtorCfg(Undefined, Undefined, Undefined, Undefined),
   CtorCfg(Undefined, Some(0), Some(0), Mass(Some(0))),
   CtorCfg(Some(Vector2(30 * Unit, 0)), Some(Unit), Some(2 * Unit), Mass(Some(4 * Unit))),
   CtorCfg(Some(Vector2(30 * Unit, 0)), Undefined, Some(2 * Unit), Mass(Undefined)),
   CtorCfg(Some(Vector2(0, 5)), Some(Unit), Some(0), Undefined),
   CtorCfg(Undefined, Some(0), Undefined, Mass(Some(4 * Unit)))}

CtorInit ==
  /\ InitScene([cfg |-> [a \in Atoms |-> Undefined], bonds |-> <<>>])
  /\ delta = 0

CtorNext ==
  \/ \E a \in Atoms, cfg \in CtorConfigs, uid \in GenIds : Construct(a, cfg, uid)
  \/ \E a \in Atoms : GetAnimatedSize(a)

CtorSpec == CtorInit /\ [][CtorNext]_vars

\* the field's value when one is supplied, d when the field is absent
Supplied(o, d) == IF o = Undefined THEN d ELSE Val(o)

\* config?.properties?.atomicMass
SuppliedMass(cfg) ==
  IF Field(cfg, "properties") = Undefined THEN Undefined
  ELSE Val(Field(cfg, "properties")).atomicMass

\* C8: the constructor applies a default only to an absent field: friction is
\* the supplied friction (1 when none is supplied) and size is
\* baseSize + mass^1.2 / 10 with the supplied size (25 when none) and the
\* supplied atomicMass (1 when none), for every supplied number, zero included.
C8_DefaultsOnlyWhenAbsent ==
  call.op = "constructor" =>
    LET cfg == config[call.this]
        a   == atoms[call.this]
    IN  /\ a.friction = Supplied(Field(cfg, "friction"), Unit)
        /\ a.size = FAdd(Supplied(Field(cfg, "size"), 25 * Unit),
                         FDiv(Pow12(Supplied(SuppliedMass(cfg), Unit)), 10 * Unit))

\* velocities an atom may have when its animated size is asked for
Velocities ==
  {Vector2(0, 0), Vector2(0, 5), Vector2(Unit, 0), Vector2(-2 * Unit, 0),
   Vector2(3 * Unit, -4 * Unit), Vector2(30 * Unit, 0)}

----------------------------------------------------------------------------
(* The frame loop run for ever: every tick calls calcPosition on every atom  *)
(* with the same elapsed time                                                *)

\* a scene in which a1 is constructed from cfg and the other atoms by new Atom()
Alone(cfg) ==
  [cfg   |-> [a \in Atoms |-> IF a = "a1" THEN cfg ELSE Undefined],
   bonds |-> <<>>]

\* atomicMass 4, friction 1: the speed shrinks by a factor between 0 and 1
LiveSlow ==
  Alone(Cfg(Some(Vector2(0, 0)), Some(Vector2(Dec(1, 100), 0)), Undefined,
            Some("he"), Some(Unit), Some(4 * Unit)))

\* no atomicMass, friction 1: at the larger delta the step factor lies between
\* 1 and 2 and the velocity changes its sign at every step
LiveFlip ==
  Alone(Cfg(Some(Vector2(Unit, 0)), Some(Vector2(-3 * Unit, 4 * Unit)), Undefined,
            Some("x"), Some(Unit), Undefined))

\* hydrogen: the step factor is far above 2
LiveHydrogen ==
  Alone(Cfg(Some(Vector2(Unit, Unit)), Some(Vector2(Dec(1, 100), 0)), Undefined,
            Some("h"), Some(Unit), Some(Decimal(1, 8, 0))))

\* a friction so small, and a position so large, that at the elapsed time
\* 0.016 the step's changes of velocity and position are at most half a unit
\* in the last place of each
LiveAbsorbed ==
  Alone(Cfg(Some(Vector2(600 * Unit, 0)), Some(Vector2(3 * 2^14, 0)), Undefined,
            Some("he"), Some(Dec(1, 10000)), Some(4 * Unit)))

LiveScenes == {LiveSlow, LiveFlip, LiveHydrogen}

LiveInit ==
  \/ /\ \E scene \in LiveScenes : InitScene(scene)
     /\ delta \in Deltas
  \/ /\ InitScene(LiveAbsorbed)
     /\ delta = Dec(16, 1000)

LiveNext == \E a \in Atoms : LoopCalcPosition(a)

\* the loop keeps calling calcPosition on every atom
LiveSpec ==
  /\ LiveInit
  /\ [][LiveNext]_vars
  /\ \A a \in Atoms : WF_vars(LoopCalcPosition(a))

\* friction > 0, atomicMass > 1 and 0 < friction * delta * 20 / ln(m) < 2
Stable(a) ==
  /\ atoms[a].friction > 0
  /\ OrNum(atoms[a].properties.atomicMass, 2 * Unit) > Unit
  /\ FMul(atoms[a].friction, StepFactor(atoms[a], delta)) > 0
  /\ FMul(atoms[a].friction, StepFactor(atoms[a], delta)) < 2 * Unit

AtRest(a) == atoms[a].vel = Zero

\* the atom moves at Epsilon or faster and a step gives it the same velocity
\* again: the friction term is rounded away
Absorbed(a) ==
  /\ InRange(atoms[a], delta)
  /\ length(atoms[a].vel) >= Epsilon
  /\ calcPosition(atoms, a, delta)[a].vel = atoms[a].vel

\* rest is absorbing: an atom at rest keeps its velocity (0,0) and its position
RestAbsorbing ==
  [][\A a \in Atoms :
       AtRest(a) => (atoms'[a].vel = Zero /\ atoms'[a].pos = atoms[a].pos)]_vars

============================================================================
